---- MODULE Spec2Model ----
(***************************************************************************)
(* A model of the two LiveKit voice agents of this repository:             *)
(*   src/AIAssistedCustomerHelpDesk.py  (InterviewAssistantFunctions)      *)
(*   src/WebRTCDemooAgent.py            (AssistantFunction, entrypoint)    *)
(*                                                                         *)
(* SpecTools runs one tool call at a time, for every tool, argument        *)
(* mapping and behaviour of the external HTTP service.                     *)
(* Spec runs one session of WebRTCDemooAgent.entrypoint on its asyncio     *)
(* event loop: chat messages, tool batches decided by the LLM, the         *)
(* function_calls_finished handler, follow-up tasks, _answer tasks, the    *)
(* room's connection state and the keep-alive loop.  The session starts    *)
(* where entrypoint enters its keep-alive loop (line 157), the handlers     *)
(* registered and the greeting spoken.                                     *)
(*                                                                         *)
(* The libraries are modelled by what they document: re.match anchors at   *)
(* the start only; raise_for_status raises for 4xx and 5xx; response.json  *)
(* raises a RequestException on text that is no JSON; asyncio runs a task  *)
(* up to its next await and takes ready tasks first in, first out.         *)
(***************************************************************************)
EXTENDS Integers, Sequences, FiniteSets, TLC

VARIABLES
    \* ---- one tool call (SpecTools) ----
    tpc,        \* position of the call: idle, bound, validated, requested, returned, raised
    tcall,      \* the tool call request: tool name and argument mapping
    tresp,      \* how the external service answers this call
    tresult,    \* what the call resolved to: a returned message or a raised exception
    thttp,      \* number of HTTP requests the call has performed
    \* ---- one session of WebRTCDemooAgent (Spec) ----
    connection_state,   \* ctx.room.connection_state
    entry,              \* position of entrypoint: "loop" (lines 157-158) or "done"
    messages,           \* chat_context.messages after the system prompt
    tasks,              \* the asyncio tasks of the session, by task id
    ready,              \* the event loop's FIFO queue of tasks ready to run
    running,            \* the task the loop is running now (0: none)
    http,               \* the HTTP requests performed, in order
    nchat,              \* non-empty chat messages received so far
    nbatch,             \* tool batches the LLM has decided so far
    ncalls,             \* tool calls the LLM has decided so far, over all batches
    arrived             \* the events that arrived so far, by task id, in their order

toolVars == <<tpc, tcall, tresp, tresult, thttp>>
sessVars == <<connection_state, entry, messages, tasks, ready, running, http, nchat, nbatch, ncalls,
              arrived>>
vars == <<tpc, tcall, tresp, tresult, thttp,
          connection_state, entry, messages, tasks, ready, running, http, nchat, nbatch, ncalls,
          arrived>>

(***************************************************************************)
(* Bounds of the model.                                                    *)
(***************************************************************************)
MaxEmailLen == 6      \* longest email string enumerated for book_appointment
MaxContacts == 1      \* longest contact list in a lookup response body
MaxChat == 1          \* non-empty chat messages received in one session
MaxBatch == 2         \* tool batches decided by the LLM in one session
MaxToolCalls == 2     \* tool calls decided by the LLM in one session, over all batches
MaxBatchLive == 1     \* tool batches in one session of FairSpec

(***************************************************************************)
(* Strings are sequences of characters, so that the regular expression of  *)
(* book_appointment can be run on them.                                    *)
(***************************************************************************)
Alphabet == {"a", "@", "."}

RECURSIVE StringsOfLen(_)
StringsOfLen(n) ==
    IF n = 0 THEN {<<>>}
    ELSE {Append(s, c) : s \in StringsOfLen(n - 1), c \in Alphabet}

Strings(n) == UNION {StringsOfLen(k) : k \in 0..n}

NoAt(s, i, j) == \A k \in i..j : s[k] # "@"

\* The end positions e at which r"[^@]+@[^@]+\.[^@]+" can stop when matching
\* s from position 1: s[1..i] is the local part, s[i+1] = "@", s[i+2..j] the
\* domain, s[j+1] = ".", s[j+2..e] the tld, each part non-empty and free of "@".
MatchEnds(s) ==
    {e \in 1..Len(s) :
        \E i \in 1..Len(s), j \in 1..Len(s) :
            /\ 1 <= i /\ i + 2 <= j /\ j + 2 <= e
            /\ NoAt(s, 1, i)
            /\ s[i + 1] = "@"
            /\ NoAt(s, i + 2, j)
            /\ s[j + 1] = "."
            /\ NoAt(s, j + 2, e)}

\* re.fullmatch: the whole string is of the form local@domain.tld
re_fullmatch(s) == Len(s) \in MatchEnds(s)

\* re.match: some prefix of the string matches (the pattern is anchored at
\* the start only)
re_match(s) == MatchEnds(s) # {}

(***************************************************************************)
(* The external HTTP service.  A response is a network error, or a status  *)
(* code with a body; bodies are the JSON shapes the tools read.            *)
(***************************************************************************)
Tags == {"livekit_appointment_booked", "other_tag"}

\* a contact of a lookup body: a JSON object whose "tags" is absent, null
\* or a list of tags; or a JSON value that is no object (a string)
Contacts ==
    {[shape |-> "string", tagsKind |-> "absent", tags |-> {}]}
    \cup {[shape |-> "object", tagsKind |-> k, tags |-> {}] : k \in {"absent", "null"}}
    \cup {[shape |-> "object", tagsKind |-> "list", tags |-> t] : t \in SUBSET Tags}

RECURSIVE ContactLists(_)
ContactLists(n) ==
    IF n = 0 THEN {<<>>}
    ELSE ContactLists(n - 1)
         \cup {Append(l, c) : l \in {x \in ContactLists(n - 1) : Len(x) = n - 1},
                              c \in Contacts}

CandidateId == <<"4", "2">>

\* a JSON body: text that is no JSON, a JSON list, or a JSON object with an
\* optional "candidate" and an optional "contacts"
Body(json, candidate, contactsKind, contacts) ==
    [json |-> json, candidate |-> candidate,
     contactsKind |-> contactsKind, contacts |-> contacts]

EmptyObject == Body("object", "absent", "absent", <<>>)

PlainBodies == {Body("invalid", "absent", "absent", <<>>), EmptyObject}

CandidateBodies ==
    {Body("invalid", "absent", "absent", <<>>), Body("list", "absent", "absent", <<>>)}
    \cup {Body("object", c, "absent", <<>>) : c \in {"absent", "null", "no_id", "id"}}

LookupBodies ==
    {Body("invalid", "absent", "absent", <<>>), Body("list", "absent", "absent", <<>>)}
    \cup {Body("object", "absent", k, <<>>) : k \in {"absent", "null"}}
    \cup {Body("object", "absent", "list", l) : l \in ContactLists(MaxContacts)}

StatusCodes == {200, 201, 304, 404, 500}

NoResponse == [net |-> "none", code |-> 0, body |-> EmptyObject]
NetworkError == [net |-> "error", code |-> 0, body |-> EmptyObject]
HttpResponse(code, body) == [net |-> "ok", code |-> code, body |-> body]

ToolNames == {"save_candidate_details", "schedule_interview",
              "book_appointment", "check_appointment_status"}

BodiesFor(tool) ==
    CASE tool = "save_candidate_details" -> CandidateBodies
      [] tool = "check_appointment_status" -> LookupBodies
      [] OTHER -> PlainBodies

ResponsesFor(tool) ==
    {NetworkError} \cup {HttpResponse(c, b) : c \in StatusCodes, b \in BodiesFor(tool)}

\* the responses a session draws from: for the webhook a network error or a
\* 200, for the lookup a 200 with a JSON list or with one booked contact
SessBodiesFor(tool) ==
    IF tool = "check_appointment_status"
    THEN {Body("list", "absent", "absent", <<>>),
          Body("object", "absent", "list",
               <<[shape |-> "object", tagsKind |-> "list",
                  tags |-> {"livekit_appointment_booked"}]>>)}
    ELSE {EmptyObject}

SessResponsesFor(tool) ==
    (IF tool = "book_appointment" THEN {NetworkError} ELSE {})
    \cup {HttpResponse(200, b) : b \in SessBodiesFor(tool)}

(***************************************************************************)
(* What a tool call resolves to: a returned message (a template and the    *)
(* value formatted into it) or a raised exception.                         *)
(***************************************************************************)
Return(text, arg) == [how |-> "return", text |-> text, arg |-> arg]
Raise(exc) == [how |-> "raise", text |-> exc, arg |-> <<>>]
NoResult == [how |-> "none", text |-> "", arg |-> <<>>]

EMAIL_INCORRECT == "The email address seems incorrect. Please provide a valid one."
BOOKING_SENT == "Appointment booking link sent to {email}. Please check your email."
BOOKING_ERROR == "There was an error booking your appointment. Please try again later."
STATUS_BOOKED == "The user has successfully booked the appointment."
STATUS_NOT_BOOKED == "The user has not yet booked an appointment. Please offer him help"
STATUS_ERROR == "Error checking the appointment status."
CANDIDATE_SAVED == "Candidate details saved with ID: {candidate_id}."
CANDIDATE_FAILED == "Failed to save candidate details. Please try again."
INTERVIEW_SCHEDULED == "Interview scheduled successfully for {slot}."
INTERVIEW_FAILED == "Failed to schedule the interview. Please try again."

\* requests.post / requests.get followed by response.raise_for_status():
\* a network error, or a 4xx or 5xx status, raises a RequestException
\* (a 1xx or 3xx status does not)
RequestFails(resp) ==
    \/ resp.net = "error"
    \/ resp.code >= 400 /\ resp.code < 600

\* the parameters each tool declares, none with a default
Required(tool) ==
    CASE tool = "save_candidate_details" -> {"email", "name"}
      [] tool = "schedule_interview" -> {"email", "slot"}
      [] tool = "book_appointment" -> {"email", "name"}
      [] tool = "check_appointment_status" -> {"email"}

\* the check a tool makes on its arguments before its HTTP request:
\* book_appointment alone checks the email, with re.match
Validates(tool, email) ==
    IF tool = "book_appointment" THEN re_match(email) ELSE TRUE

book_appointment(email, resp) ==
    IF RequestFails(resp) THEN Return(BOOKING_ERROR, <<>>)
    ELSE Return(BOOKING_SENT, email)

\* a scan that takes any tag for the marker
RECURSIVE ScanContactsAnyTag(_)
ScanContactsAnyTag(list) ==
    IF list = <<>> THEN Return(STATUS_NOT_BOOKED, <<>>)
    ELSE LET contact == Head(list) IN
         IF contact.shape # "object" THEN Raise("AttributeError")
         ELSE IF contact.tagsKind = "null" THEN Raise("TypeError")
         ELSE IF contact.tagsKind = "list" /\ contact.tags # {}
              THEN Return(STATUS_BOOKED, <<>>)
         ELSE ScanContactsAnyTag(Tail(list))

\* the loop over data.get('contacts', []): the first contact decides when it
\* carries the marker tag or when reading its tags raises
RECURSIVE ScanContacts(_)
ScanContacts(list) ==
    IF list = <<>> THEN Return(STATUS_NOT_BOOKED, <<>>)
    ELSE LET contact == Head(list) IN
         IF contact.shape # "object" THEN Raise("AttributeError")
         ELSE IF contact.tagsKind = "null" THEN Raise("TypeError")
         ELSE IF contact.tagsKind = "list"
                 /\ "livekit_appointment_booked" \in contact.tags
              THEN Return(STATUS_BOOKED, <<>>)
         ELSE ScanContacts(Tail(list))

check_appointment_status(email, resp) ==
    IF RequestFails(resp) THEN Return(STATUS_ERROR, <<>>)
    ELSE IF resp.body.json = "invalid" THEN Return(STATUS_ERROR, <<>>)
    ELSE IF resp.body.json # "object" THEN Raise("AttributeError")
    ELSE IF resp.body.contactsKind = "absent" THEN Return(STATUS_NOT_BOOKED, <<>>)
    ELSE IF resp.body.contactsKind = "null" THEN Raise("TypeError")
    ELSE ScanContacts(resp.body.contacts)

save_candidate_details(email, resp) ==
    IF RequestFails(resp) THEN Return(CANDIDATE_FAILED, <<>>)
    ELSE IF resp.body.json = "invalid" THEN Return(CANDIDATE_FAILED, <<>>)
    ELSE IF resp.body.json # "object" THEN Raise("TypeError")
    ELSE IF resp.body.candidate = "absent" THEN Raise("KeyError")
    ELSE IF resp.body.candidate = "null" THEN Raise("TypeError")
    ELSE IF resp.body.candidate = "no_id" THEN Raise("KeyError")
    ELSE Return(CANDIDATE_SAVED, CandidateId)

Slot == <<"s">>

schedule_interview(email, resp) ==
    IF RequestFails(resp) THEN Return(INTERVIEW_FAILED, <<>>)
    ELSE Return(INTERVIEW_SCHEDULED, Slot)

\* the tool's code from its HTTP response on
AfterResponse(tool, email, resp) ==
    CASE tool = "save_candidate_details" -> save_candidate_details(email, resp)
      [] tool = "schedule_interview" -> schedule_interview(email, resp)
      [] tool = "book_appointment" -> book_appointment(email, resp)
      [] tool = "check_appointment_status" -> check_appointment_status(email, resp)


(***************************************************************************)
(* SpecTools: one tool call, from the request to its result.               *)
(***************************************************************************)
GoodEmail == <<"a", "@", "a", ".", "a">>
BadEmail == <<"a", ".", "a">>

SampleEmails == {<<>>, BadEmail, GoodEmail}

\* book_appointment is the one tool that reads the characters of the email
EmailsFor(tool) ==
    IF tool = "book_appointment" THEN Strings(MaxEmailLen) ELSE SampleEmails

NoCall == [tool |-> "none", email |-> <<>>, given |-> {}]

ToolInit ==
    /\ tpc = "idle"
    /\ tcall = NoCall
    /\ tresp = NoResponse
    /\ tresult = NoResult
    /\ thttp = 0

\* the caller invokes the tool with an argument mapping
Invoke ==
    /\ tpc = "idle"
    /\ \E t \in ToolNames :
        \E g \in SUBSET Required(t) :
            \E e \in (IF "email" \in g THEN EmailsFor(t) ELSE {<<>>}) :
                /\ tcall' = [tool |-> t, email |-> e, given |-> g]
                /\ tpc' = "called"
                /\ UNCHANGED <<sessVars, tresp, tresult, thttp>>

\* Python binds the arguments to the parameters: a parameter without a
\* default that is not passed raises TypeError before the body runs
Bind ==
    /\ tpc = "called"
    /\ IF Required(tcall.tool) \subseteq tcall.given
       THEN tpc' = "bound" /\ UNCHANGED tresult
       ELSE tpc' = "raised" /\ tresult' = Raise("TypeError")
    /\ UNCHANGED <<sessVars, tcall, tresp, thttp>>

\* the tool's check of its arguments before the request
Validate ==
    /\ tpc = "bound"
    /\ IF Validates(tcall.tool, tcall.email)
       THEN tpc' = "validated" /\ UNCHANGED tresult
       ELSE tpc' = "returned" /\ tresult' = Return(EMAIL_INCORRECT, <<>>)
    /\ UNCHANGED <<sessVars, tcall, tresp, thttp>>

\* a request that is sent again when its first response is a failure
RequestRetried ==
    /\ tpc = "validated"
    /\ \E r \in ResponsesFor(tcall.tool) :
        /\ thttp' = thttp + (IF RequestFails(r) THEN 2 ELSE 1)
        /\ tresp' = r
        /\ tpc' = "requested"
        /\ UNCHANGED <<sessVars, tcall, tresult>>

\* requests.post / requests.get: one HTTP request, answered by the service
Request ==
    /\ tpc = "validated"
    /\ \E r \in ResponsesFor(tcall.tool) :
        /\ thttp' = thttp + 1
        /\ tresp' = r
        /\ tpc' = "requested"
        /\ UNCHANGED <<sessVars, tcall, tresult>>

\* the rest of the try block and the except clause
Resolve ==
    /\ tpc = "requested"
    /\ tresult' = AfterResponse(tcall.tool, tcall.email, tresp)
    /\ tpc' = IF tresult'.how = "return" THEN "returned" ELSE "raised"
    /\ UNCHANGED <<sessVars, tcall, tresp, thttp>>

ToolNext == Invoke \/ Bind \/ Validate \/ Request \/ Resolve


(***************************************************************************)
(* Spec: one session of WebRTCDemooAgent.entrypoint.                       *)
(*                                                                         *)
(* Everything runs on one asyncio event loop: the loop takes the first     *)
(* task of its ready queue and runs it up to its next await; callbacks of  *)
(* the room, of the chat and of the assistant run between two such steps.  *)
(***************************************************************************)
SessEmails == {<<>>, BadEmail, GoodEmail}

ChatTexts == {"", "hello"}

\* the arguments of one called function: the email and whether a non-empty
\* user_msg is among them
CallArgs == [email : SessEmails, user_msg : BOOLEAN]

RECURSIVE CallLists(_)
CallLists(n) ==
    IF n = 0 THEN {<<>>}
    ELSE CallLists(n - 1)
         \cup {Append(l, c) : l \in {x \in CallLists(n - 1) : Len(x) = n - 1},
                              c \in CallArgs}

MaxTasks == MaxChat + 3 * MaxBatch
TaskIds == 1..MaxTasks

NoTool == [name |-> "none", email |-> <<>>, at |-> "none", resp |-> NoResponse]

NoTask ==
    [kind |-> "none", pc |-> "none", text |-> "", email |-> <<>>, parent |-> 0,
     calls |-> <<>>, results |-> <<>>, tool |-> NoTool, say |-> ""]

\* asyncio.create_task(_answer(text)); parent is the task that awaits it
AnswerTask(text, parent) ==
    [NoTask EXCEPT !.kind = "answer", !.pc = "start", !.text = text, !.parent = parent]

\* asyncio.create_task(follow_up_appointment(email))
FollowUpTask(email) ==
    [NoTask EXCEPT !.kind = "follow_up", !.pc = "start", !.email = email]

\* the assistant's execution of the tool calls the LLM decided
BatchTask(calls) ==
    [NoTask EXCEPT !.kind = "batch", !.pc = "calls", !.calls = calls]

\* a coroutine that has returned keeps none of its locals
Done(task) ==
    [NoTask EXCEPT !.kind = task.kind, !.pc = "done", !.email = task.email,
                   !.parent = task.parent]

NewId == Cardinality({t \in TaskIds : tasks[t].kind # "none"}) + 1

SessInit ==
    /\ connection_state = "connected"
    /\ entry = "loop"
    /\ messages = <<>>
    /\ tasks = [t \in TaskIds |-> NoTask]
    /\ ready = <<>>
    /\ running = 0
    /\ http = <<>>
    /\ nchat = 0
    /\ nbatch = 0
    /\ ncalls = 0
    /\ arrived = <<>>

\* a tool that awaited its HTTP call, as an asynchronous client would
HttpCallAwaited == TRUE

\* requests.post and requests.get are synchronous calls: the coroutine does
\* not await them, so the event loop runs nothing else until they return
HttpCallSuspends == FALSE

\* ---------------- callbacks, run by the loop between two task steps ------

\* chat.on("message_received"): on_message_received(msg)
on_message_received ==
    /\ running = 0
    /\ nchat < MaxChat
    /\ \E text \in ChatTexts :
        /\ IF text # ""
           THEN /\ tasks' = [tasks EXCEPT ![NewId] = AnswerTask(text, 0)]
                /\ ready' = Append(ready, NewId)
                /\ nchat' = nchat + 1
                /\ arrived' = Append(arrived, NewId)
           ELSE UNCHANGED <<tasks, ready, nchat, arrived>>
        /\ UNCHANGED <<toolVars, connection_state, entry, messages, running, http, nbatch, ncalls>>

\* the LLM decides a list of tool calls and the assistant starts running them
LLMDecides ==
    /\ running = 0
    /\ nbatch < MaxBatch
    /\ \E calls \in CallLists(MaxToolCalls - ncalls) :
        /\ nbatch' = nbatch + 1
        /\ ncalls' = ncalls + Len(calls)
        /\ tasks' = [tasks EXCEPT ![NewId] = BatchTask(calls)]
        /\ ready' = Append(ready, NewId)
        /\ UNCHANGED <<toolVars, arrived, connection_state, entry, messages, running, http, nchat>>

\* the timer of asyncio.sleep(20) fires and makes the follow-up ready
TimerFires(t) ==
    /\ running = 0
    /\ tasks[t].kind = "follow_up" /\ tasks[t].pc = "sleep"
    /\ tasks' = [tasks EXCEPT ![t].pc = "woken"]
    /\ ready' = Append(ready, t)
    /\ arrived' = Append(arrived, t)
    /\ UNCHANGED <<toolVars, connection_state, entry, messages, running, http, nchat, nbatch, ncalls>>

\* an interruption that takes the interrupted turn's message back
SayEndsRollback(t) ==
    /\ running = 0
    /\ tasks[t].kind = "answer" /\ tasks[t].pc = "say"
    /\ \E how \in {"completed", "interrupted"} :
        /\ tasks' = [tasks EXCEPT ![t].pc = "said", ![t].say = how]
        /\ ready' = Append(ready, t)
        /\ messages' = IF how = "interrupted"
                       THEN SelectSeq(messages, LAMBDA m : m.by # t)
                       ELSE messages
        /\ UNCHANGED <<toolVars, arrived, connection_state, entry, running, http, nchat, nbatch, ncalls>>

\* assistant.say ends, played to its end or cut by an interruption
SayEnds(t) ==
    /\ running = 0
    /\ tasks[t].kind = "answer" /\ tasks[t].pc = "say"
    /\ \E how \in {"completed", "interrupted"} :
        /\ tasks' = [tasks EXCEPT ![t].pc = "said", ![t].say = how]
        /\ ready' = Append(ready, t)
        /\ UNCHANGED <<toolVars, arrived, connection_state, entry, messages, running, http, nchat, nbatch, ncalls>>

\* the room is closed, or gives up reconnecting
Disconnect ==
    /\ running = 0
    /\ connection_state \in {"connected", "reconnecting"}
    /\ connection_state' = "disconnected"
    /\ UNCHANGED <<toolVars, arrived, entry, messages, tasks, ready, running, http, nchat, nbatch, ncalls>>

\* the room loses its connection and tries to resume it; nothing reads the
\* state once the keep-alive loop has exited
ConnectionLost ==
    /\ running = 0
    /\ entry = "loop"
    /\ connection_state = "connected"
    /\ connection_state' = "reconnecting"
    /\ UNCHANGED <<toolVars, arrived, entry, messages, tasks, ready, running, http, nchat, nbatch, ncalls>>

\* the room resumes its connection
Reconnected ==
    /\ running = 0
    /\ entry = "loop"
    /\ connection_state = "reconnecting"
    /\ connection_state' = "connected"
    /\ UNCHANGED <<toolVars, arrived, entry, messages, tasks, ready, running, http, nchat, nbatch, ncalls>>

\* a keep-alive loop that exits at its first check, whatever the state is
EntryPollOnce ==
    /\ running = 0
    /\ entry = "loop"
    /\ entry' = "done"
    /\ UNCHANGED <<toolVars, arrived, connection_state, messages, tasks, ready, running, http, nchat, nbatch, ncalls>>

\* entrypoint's keep-alive loop: after each sleep(1) it reads the state
EntryPoll ==
    /\ running = 0
    /\ entry = "loop"
    /\ entry' = IF connection_state = "connected" THEN "loop" ELSE "done"
    /\ UNCHANGED <<toolVars, arrived, connection_state, messages, tasks, ready, running, http, nchat, nbatch, ncalls>>

\* ---------------- the loop runs the next ready task ----------------------

\* the loop is idle and t is the first task of its ready queue: it runs t
IsNext(t) == running = 0 /\ ready # <<>> /\ Head(ready) = t

\* _answer, up to its await: the append, gpt.chat and the start of say
AnswerRun(t) ==
    /\ IsNext(t)
    /\ tasks[t].kind = "answer" /\ tasks[t].pc = "start"
    /\ messages' = Append(messages, [role |-> "user", content |-> tasks[t].text, by |-> t])
    /\ tasks' = [tasks EXCEPT ![t].pc = "say"]
    /\ ready' = Tail(ready)
    /\ UNCHANGED <<toolVars, arrived, connection_state, entry, running, http, nchat, nbatch, ncalls>>

\* _answer returns once say has ended; the task awaiting it becomes ready
AnswerFinish(t) ==
    /\ IsNext(t)
    /\ tasks[t].kind = "answer" /\ tasks[t].pc = "said"
    /\ IF tasks[t].parent # 0
       THEN /\ tasks' = [tasks EXCEPT ![t] = Done(tasks[t]),
                                      ![tasks[t].parent].pc = "answered"]
            /\ ready' = Append(Tail(ready), tasks[t].parent)
       ELSE /\ tasks' = [tasks EXCEPT ![t] = Done(tasks[t])]
            /\ ready' = Tail(ready)
    /\ UNCHANGED <<toolVars, arrived, connection_state, entry, messages, running, http, nchat, nbatch, ncalls>>

\* a follow-up that does not wait before its status check
FollowUpStartNoSleep(t) ==
    /\ IsNext(t)
    /\ tasks[t].kind = "follow_up" /\ tasks[t].pc = "start"
    /\ tasks' = [tasks EXCEPT ![t].pc = "woken"]
    /\ ready' = Append(Tail(ready), t)
    /\ UNCHANGED <<toolVars, arrived, connection_state, entry, messages, running, http, nchat, nbatch, ncalls>>

\* follow_up_appointment, up to await asyncio.sleep(20)
FollowUpStart(t) ==
    /\ IsNext(t)
    /\ tasks[t].kind = "follow_up" /\ tasks[t].pc = "start"
    /\ tasks' = [tasks EXCEPT ![t].pc = "sleep"]
    /\ ready' = Tail(ready)
    /\ UNCHANGED <<toolVars, arrived, connection_state, entry, messages, running, http, nchat, nbatch, ncalls>>

\* after the sleep: the call of fnc.check_appointment_status(email), which
\* the follow-up awaits as a coroutine, so it runs inside the same step
FollowUpCheck(t) ==
    /\ IsNext(t)
    /\ tasks[t].kind = "follow_up" /\ tasks[t].pc = "woken"
    /\ tasks' = [tasks EXCEPT ![t].pc = "checking",
                              ![t].tool = [NoTool EXCEPT !.name = "check_appointment_status",
                                                         !.email = tasks[t].email,
                                                         !.at = "entered"]]
    /\ ready' = Tail(ready)
    /\ running' = t
    /\ UNCHANGED <<toolVars, arrived, connection_state, entry, messages, http, nchat, nbatch, ncalls>>

\* the awaited _answer task is done: follow_up_appointment returns
FollowUpFinish(t) ==
    /\ IsNext(t)
    /\ tasks[t].kind = "follow_up" /\ tasks[t].pc = "answered"
    /\ tasks' = [tasks EXCEPT ![t] = Done(tasks[t])]
    /\ ready' = Tail(ready)
    /\ UNCHANGED <<toolVars, arrived, connection_state, entry, messages, running, http, nchat, nbatch, ncalls>>

\* on_function_calls_finished(called_functions): whether the handler raises
\* and the emails it schedules a follow-up for.  _answer takes one parameter,
\* so _answer(user_msg, use_image=True) raises TypeError before line 148.
on_function_calls_finished(called) ==
    IF Len(called) = 0 THEN [raised |-> FALSE, follow_ups |-> <<>>]
    ELSE IF called[1].user_msg THEN [raised |-> TRUE, follow_ups |-> <<>>]
    ELSE IF called[1].email # <<>> THEN [raised |-> FALSE, follow_ups |-> <<called[1].email>>]
    ELSE [raised |-> FALSE, follow_ups |-> <<>>]

\* the assistant runs the next tool call of the batch, or, after the last
\* one, emits function_calls_finished
BatchStep(t) ==
    /\ IsNext(t)
    /\ tasks[t].kind = "batch" /\ tasks[t].pc = "calls"
    /\ IF Len(tasks[t].results) < Len(tasks[t].calls)
       THEN /\ tasks' = [tasks EXCEPT
                   ![t].pc = "calling",
                   ![t].tool = [NoTool EXCEPT
                       !.name = "book_appointment",
                       !.email = tasks[t].calls[Len(tasks[t].results) + 1].email,
                       !.at = "entered"]]
            /\ ready' = Tail(ready)
            /\ running' = t
       ELSE LET h == on_function_calls_finished(tasks[t].calls) IN
            /\ IF h.follow_ups # <<>>
               THEN /\ tasks' = [tasks EXCEPT ![t] = Done(tasks[t]),
                                              ![NewId] = FollowUpTask(h.follow_ups[1])]
                    /\ ready' = Append(Tail(ready), NewId)
               ELSE /\ tasks' = [tasks EXCEPT
                           ![t] = IF h.raised
                                  THEN [Done(tasks[t]) EXCEPT !.pc = "handler_raised"]
                                  ELSE Done(tasks[t])]
                    /\ ready' = Tail(ready)
            /\ running' = 0
    /\ UNCHANGED <<toolVars, arrived, connection_state, entry, messages, http, nchat, nbatch, ncalls>>

\* ---------------- the tool body, run by the task that called it ----------

\* t is inside the step the loop is running; a task that suspended inside
\* the tool body goes on when the loop takes it from the ready queue
InStep(t) == IF running = t THEN TRUE ELSE IsNext(t)

\* the ready queue without t, when t was taken from it
Rest(t) == IF running = t THEN ready ELSE Tail(ready)

\* the tool body returns or raises to the task that called it
ToolEnds(t, out) ==
    IF tasks[t].kind = "follow_up"
    THEN IF out.how = "raise"
         THEN /\ tasks' = [tasks EXCEPT ![t].pc = "failed", ![t].tool = NoTool]
              /\ ready' = Rest(t)
              /\ running' = 0
         ELSE \* await asyncio.create_task(_answer(status))
              /\ tasks' = [tasks EXCEPT ![t].pc = "await_answer", ![t].tool = NoTool,
                                        ![NewId] = AnswerTask(out.text, t)]
              /\ ready' = Append(Rest(t), NewId)
              /\ running' = 0
    ELSE /\ tasks' = [tasks EXCEPT ![t].pc = "calls", ![t].tool = NoTool,
                                   ![t].results = Append(@, out)]
         /\ ready' = Append(Rest(t), t)
         /\ running' = 0

\* the tool's check of its arguments
ToolValidate(t) ==
    /\ running = t
    /\ tasks[t].tool.at = "entered"
    /\ IF Validates(tasks[t].tool.name, tasks[t].tool.email)
       THEN /\ tasks' = [tasks EXCEPT ![t].tool.at = "validated"]
            /\ UNCHANGED <<ready, running>>
       ELSE ToolEnds(t, Return(EMAIL_INCORRECT, <<>>))
    /\ UNCHANGED <<toolVars, arrived, connection_state, entry, messages, http, nchat, nbatch, ncalls>>

\* the tool's HTTP request, answered by the service
ToolRequest(t) ==
    /\ running = t
    /\ tasks[t].tool.at = "validated"
    /\ \E r \in SessResponsesFor(tasks[t].tool.name) :
        /\ http' = Append(http, [tool |-> tasks[t].tool.name,
                                 email |-> tasks[t].tool.email, by |-> t])
        /\ tasks' = [tasks EXCEPT ![t].tool.at = "requested", ![t].tool.resp = r]
        /\ IF HttpCallSuspends
           THEN running' = 0 /\ ready' = Append(ready, t)
           ELSE UNCHANGED <<ready, running>>
        /\ UNCHANGED <<toolVars, arrived, connection_state, entry, messages, nchat, nbatch, ncalls>>

\* the rest of the tool body
ToolResolve(t) ==
    /\ InStep(t)
    /\ tasks[t].tool.at = "requested"
    /\ ToolEnds(t, AfterResponse(tasks[t].tool.name, tasks[t].tool.email, tasks[t].tool.resp))
    /\ UNCHANGED <<toolVars, arrived, connection_state, entry, messages, http, nchat, nbatch, ncalls>>

SessNext ==
    \/ on_message_received
    \/ LLMDecides
    \/ Disconnect
    \/ ConnectionLost
    \/ Reconnected
    \/ EntryPoll
    \/ \E t \in TaskIds :
        \/ TimerFires(t)
        \/ SayEnds(t)
        \/ AnswerRun(t)
        \/ AnswerFinish(t)
        \/ FollowUpStart(t)
        \/ FollowUpCheck(t)
        \/ FollowUpFinish(t)
        \/ BatchStep(t)
        \/ ToolValidate(t)
        \/ ToolRequest(t)
        \/ ToolResolve(t)

(***************************************************************************)
(* The specifications.                                                     *)
(***************************************************************************)
Init == ToolInit /\ SessInit

Next == SessNext

Spec == Init /\ [][Next]_vars

\* the event loop goes on running: a synchronous HTTP call returns, and the
\* keep-alive loop wakes from its sleep(1) whenever the loop is free
Fairness ==
    /\ WF_vars(EntryPoll)
    /\ WF_vars(\E t \in TaskIds : ToolValidate(t) \/ ToolRequest(t) \/ ToolResolve(t))

\* the sessions of at most MaxBatchLive tool batches
NextLive ==
    \/ on_message_received
    \/ (nbatch < MaxBatchLive /\ LLMDecides)
    \/ Disconnect
    \/ ConnectionLost
    \/ Reconnected
    \/ EntryPoll
    \/ \E t \in TaskIds :
        \/ TimerFires(t)
        \/ SayEnds(t)
        \/ AnswerRun(t)
        \/ AnswerFinish(t)
        \/ FollowUpStart(t)
        \/ FollowUpCheck(t)
        \/ FollowUpFinish(t)
        \/ BatchStep(t)
        \/ ToolValidate(t)
        \/ ToolRequest(t)
        \/ ToolResolve(t)

FairSpec == Init /\ [][NextLive]_vars /\ Fairness

NextTools == ToolNext

SpecTools == Init /\ [][NextTools]_vars

(***************************************************************************)
(* Claims about one tool call (SpecTools).                                 *)
(***************************************************************************)
Finished == tpc \in {"returned", "raised"}
AllGiven == Required(tcall.tool) \subseteq tcall.given

\* the message each tool returns from its except clause
FailureMessage(tool) ==
    CASE tool = "save_candidate_details" -> CANDIDATE_FAILED
      [] tool = "schedule_interview" -> INTERVIEW_FAILED
      [] tool = "book_appointment" -> BOOKING_ERROR
      [] tool = "check_appointment_status" -> STATUS_ERROR

Non2xx(resp) == resp.net = "ok" /\ ~(resp.code >= 200 /\ resp.code < 300)

\* a body without the fields the tool expects: for save_candidate_details no
\* candidate.id, for check_appointment_status no list of contacts each with a
\* tags list
Malformed(tool, body) ==
    CASE tool = "save_candidate_details" ->
            body.json # "object" \/ body.candidate # "id"
      [] tool = "check_appointment_status" ->
            \/ body.json # "object"
            \/ body.contactsKind # "list"
            \/ \E i \in 1..Len(body.contacts) :
                   body.contacts[i].shape # "object" \/ body.contacts[i].tagsKind # "list"
      [] OTHER -> FALSE

BadResponse(tool, resp) ==
    resp.net = "error" \/ Non2xx(resp) \/ Malformed(tool, resp.body)

\* C1: a tool call that is passed all its parameters never raises to its
\* caller, whatever the external service does: it ends by returning a message.
C1_ToolNeverRaises == tpc = "raised" => ~AllGiven

\* C2: when the service answers with a non-2xx status, a network error or a
\* 2xx with a malformed body, the tool returns its failure message.
C2_FailureOnBadResponse ==
    (Finished /\ thttp > 0 /\ BadResponse(tcall.tool, tresp))
        => tresult = Return(FailureMessage(tcall.tool), <<>>)

\* C3: a tool that takes an email and is called with one that fails the
\* format check performs no HTTP request and returns the message saying the
\* email is incorrect.
C3_BadEmailRejected ==
    (tpc # "idle" /\ tcall.tool # "check_appointment_status" /\ AllGiven
       /\ ~re_match(tcall.email))
        => /\ thttp = 0
           /\ Finished => tresult = Return(EMAIL_INCORRECT, <<>>)

\* C4: a tool call that lacks a required parameter returns a failure result
\* and performs no HTTP request.
C4_MissingParameterFails ==
    (tpc # "idle" /\ ~AllGiven)
        => /\ thttp = 0
           /\ Finished => tresult.how = "return"

\* C5: book_appointment issues its HTTP request for exactly the emails that
\* are, as a whole, of the form local "@" domain "." tld.
C5_RequestIffWellFormed ==
    (Finished /\ tcall.tool = "book_appointment" /\ AllGiven)
        => (thttp > 0 <=> re_fullmatch(tcall.email))

\* the lookup answers of the shape the tool expects: a 2xx whose body is an
\* object with a list of contacts (or none), each an object with a list of
\* tags (or none)
SuccessfulLookup(resp) ==
    /\ resp.net = "ok" /\ resp.code >= 200 /\ resp.code < 300
    /\ resp.body.json = "object"
    /\ resp.body.contactsKind \in {"absent", "list"}
    /\ \A i \in 1..Len(resp.body.contacts) :
           /\ resp.body.contacts[i].shape = "object"
           /\ resp.body.contacts[i].tagsKind \in {"absent", "list"}

MarkerPresent(body) ==
    /\ body.contactsKind = "list"
    /\ \E i \in 1..Len(body.contacts) :
           /\ body.contacts[i].tagsKind = "list"
           /\ "livekit_appointment_booked" \in body.contacts[i].tags

\* C12: for every successful lookup response, check_appointment_status returns
\* "successfully booked" exactly when the marker tag is among the tags of a
\* contact of the response, and "not yet booked" otherwise, an empty contact
\* list and contacts without tags included.
C12_StatusFollowsMarker ==
    (Finished /\ tcall.tool = "check_appointment_status" /\ AllGiven
       /\ SuccessfulLookup(tresp))
        => tresult = IF MarkerPresent(tresp.body)
                     THEN Return(STATUS_BOOKED, <<>>)
                     ELSE Return(STATUS_NOT_BOOKED, <<>>)

C12_Witness ==
    /\ Finished /\ tcall.tool = "check_appointment_status"
    /\ SuccessfulLookup(tresp) /\ MarkerPresent(tresp.body)
    /\ tresult = Return(STATUS_BOOKED, <<>>)

\* the results of a call that did what it was asked
Succeeded ==
    /\ tresult.how = "return"
    /\ tresult.text \in
         CASE tcall.tool = "save_candidate_details" -> {CANDIDATE_SAVED}
           [] tcall.tool = "schedule_interview" -> {INTERVIEW_SCHEDULED}
           [] tcall.tool = "book_appointment" -> {BOOKING_SENT}
           [] tcall.tool = "check_appointment_status" ->
                  {STATUS_BOOKED, STATUS_NOT_BOOKED}

\* C13: two failing executions of the same tool that differ only in the
\* underlying error (status code, exception, response body) end the same way:
\* every execution that sent its request and did not succeed returns the one
\* failure message of its tool.
C13_FailuresIndistinguishable ==
    (Finished /\ thttp > 0 /\ ~Succeeded)
        => tresult = Return(FailureMessage(tcall.tool), <<>>)

InTool(t) == tasks[t].tool.at # "none"
Saying(t) == tasks[t].kind = "answer" /\ tasks[t].pc = "say"
Ready(t) == \E i \in 1..Len(ready) : ready[i] = t

\* C6: once the entrypoint loop has exited, no follow-up performs its status
\* check and none injects a message through _answer.
C6_NoFollowUpAfterClose ==
    [][entry = "done" =>
        /\ \A i \in (Len(http) + 1)..Len(http') :
               http'[i].tool # "check_appointment_status"
        /\ \A i \in (Len(messages) + 1)..Len(messages') :
               tasks[messages'[i].by].parent = 0]_vars

ChecksBy(t) == {i \in 1..Len(http) : http[i].by = t}
AnswersOf(t) == {i \in 1..Len(messages) : tasks[messages[i].by].parent = t}

\* C7: a follow-up that has ended performed exactly one status check, for
\* its own email, and injected exactly one message.
C7_FollowUpFiresOnce ==
    \A t \in TaskIds :
        (tasks[t].kind = "follow_up" /\ tasks[t].pc \in {"done", "failed"})
            => /\ Cardinality(ChecksBy(t)) = 1
               /\ \A i \in ChecksBy(t) : http[i].email = tasks[t].email
               /\ Cardinality(AnswersOf(t)) = 1

\* C8: a follow-up task is created only by a function_calls_finished whose
\* booking call succeeded.
C8_FollowUpOnlyOnSuccess ==
    [][\A t \in TaskIds :
          (tasks[t].kind = "none" /\ tasks'[t].kind = "follow_up")
              => \E b \in TaskIds :
                    /\ IsNext(b) /\ tasks[b].kind = "batch"
                    /\ tasks[b].results # <<>>
                    /\ tasks[b].results[1].text = BOOKING_SENT]_vars

\* C9: at most one task of the session is inside a tool body, between the
\* start of the body and its return.
C9_NoToolOverlap == Cardinality({t \in TaskIds : InTool(t)}) <= 1

\* a follow-up is inside its status check, its request made, while a batch
\* with a tool call still to run waits in the ready queue
C9_Witness ==
    \E t \in TaskIds, b \in TaskIds :
        /\ tasks[t].kind = "follow_up" /\ tasks[t].tool.at = "requested"
        /\ tasks[b].kind = "batch" /\ Ready(b)
        /\ Len(tasks[b].results) < Len(tasks[b].calls)

\* C10: at most one _answer is between its append to the transcript and the
\* end of its assistant.say.
C10_OneEventAtATime == Cardinality({t \in TaskIds : Saying(t)}) <= 1

\* the event a message of the transcript belongs to: the chat message its
\* _answer task was created for, or the follow-up whose timer fired
EventOf(m) == IF tasks[m.by].parent # 0 THEN tasks[m.by].parent ELSE m.by

\* the place of an event in the order of arrival
Arrival(e) == CHOOSE i \in 1..Len(arrived) : arrived[i] = e

\* C11: the messages are appended in the order their events arrived: when the
\* handler or timer of e1 fired before that of e2, the message of e1 stands
\* before the message of e2 in chat_context.messages.
C11_ArrivalOrder ==
    \A i, j \in 1..Len(messages) :
        i < j => Arrival(EventOf(messages[i])) < Arrival(EventOf(messages[j]))

\* the entries of the transcript that the _answer task t appended
EntriesOf(t) == {i \in 1..Len(messages) : messages[i].by = t}

\* C15: interrupting a reply neither takes back nor repeats an entry of the
\* transcript: from its append on, also while its reply is spoken, once the
\* reply was cut and after it returned, the message of an _answer (a chat
\* message or a follow-up's status) stands in the transcript exactly once and
\* whole.
C15_InterruptionKeepsTranscript ==
    \A t \in TaskIds :
        tasks[t].kind = "answer" =>
            /\ Cardinality(EntriesOf(t)) = IF tasks[t].pc = "start" THEN 0 ELSE 1
            /\ \A i \in EntriesOf(t) :
                   /\ messages[i].content # ""
                   /\ tasks[t].pc \in {"say", "said"} => messages[i].content = tasks[t].text

\* a reply was cut while a later event had already arrived and been appended
C15_Witness ==
    \E t \in TaskIds :
        /\ tasks[t].kind = "answer" /\ tasks[t].pc = "said" /\ tasks[t].say = "interrupted"
        /\ \E i, j \in 1..Len(messages) : i < j /\ messages[i].by = t

\* the step in which the assistant emits function_calls_finished for the
\* batch t and the handler runs
HandlerRuns(t) ==
    /\ IsNext(t)
    /\ tasks[t].kind = "batch" /\ tasks[t].pc = "calls"
    /\ Len(tasks[t].results) = Len(tasks[t].calls)
    /\ tasks'[t].pc \in {"done", "handler_raised"}

\* the tasks the step creates
NewTasks(kind) == {u \in TaskIds : tasks[u].kind = "none" /\ tasks'[u].kind = kind}

\* C17: every called function of a finished batch is considered for a
\* follow-up, not only the first: a handler that does not raise schedules one
\* follow-up for each call of the batch that carries an email.
C17_EveryCallConsidered ==
    [][\A t \in TaskIds :
          (HandlerRuns(t) /\ tasks'[t].pc = "done")
              => Cardinality(NewTasks("follow_up"))
                   = Cardinality({i \in 1..Len(tasks[t].calls) :
                                     tasks[t].calls[i].email # <<>>})]_vars

\* the timer of the follow-up t has fired
Fired(t) == \E i \in 1..Len(arrived) : arrived[i] = t

\* the status check of the follow-up t has returned its message
CheckReturned(t) ==
    /\ ChecksBy(t) # {}
    /\ ~InTool(t)
    /\ tasks[t].pc \in {"await_answer", "answered", "done"}

FollowUpOrder ==
    /\ \A t \in TaskIds :
          (tasks[t].kind = "follow_up" /\ (InTool(t) \/ ChecksBy(t) # {})) => Fired(t)
    /\ \A a \in TaskIds :
          (tasks[a].kind = "answer" /\ tasks[a].parent # 0)
              => /\ CheckReturned(tasks[a].parent)
                 /\ tasks[a].pc \in {"say", "said"} => EntriesOf(a) # {}
    /\ \A i, j \in 1..Len(messages) : i < j => messages[i].by < messages[j].by

\* C18: within a fired follow-up the status check starts only after the
\* timer of its delay has fired, its result is appended only after the check
\* has returned, and the reply starts only after that append: it starts in
\* the very step of the append, so that nothing is appended between the two,
\* and input that arrives after the result stands after it in the transcript.
C18_FollowUpStepsOrdered ==
    /\ []FollowUpOrder
    /\ [][\A a \in TaskIds :
             (tasks[a].parent # 0 /\ EntriesOf(a) = {} /\ EntriesOf(a)' # {})
                 => /\ tasks'[a].pc = "say"
                    /\ Len(messages') = Len(messages) + 1]_vars

\* the reply to a follow-up's status is being spoken in a session that also
\* received a chat message
C18_Witness ==
    \E a, c \in TaskIds :
        /\ tasks[a].parent # 0 /\ Saying(a)
        /\ tasks[c].kind = "answer" /\ tasks[c].parent = 0

\* C19: the function_calls_finished handler completes without raising for
\* every argument mapping of the first called function and schedules a
\* follow-up whenever that mapping has a non-empty email, whatever its other
\* arguments (such as user_msg); with an empty list it creates no task and
\* leaves the transcript as it is.
C19_HandlerCompletes ==
    [][\A t \in TaskIds :
          HandlerRuns(t)
              => /\ tasks'[t].pc # "handler_raised"
                 /\ IF tasks[t].calls = <<>>
                    THEN /\ \A u \in TaskIds : tasks[u].kind = "none" => tasks'[u].kind = "none"
                         /\ messages' = messages
                    ELSE tasks[t].calls[1].email # <<>>
                           => \E u \in NewTasks("follow_up") :
                                 tasks'[u].email = tasks[t].calls[1].email]_vars

\* the step by which the keep-alive loop exits and entrypoint returns
LoopExits == entry = "loop" /\ entry' = "done"

\* C16: whenever the room's connection state stops being connected, the
\* keep-alive loop eventually exits and entrypoint terminates, the liveness
\* check being scheduled fairly; and the loop never exits while the room is
\* still connected.
C16_ExitsOnDisconnect ==
    /\ (connection_state # "connected") ~> (entry = "done")
    /\ [][LoopExits => connection_state # "connected"]_vars

\* C16, amended: whenever the connection state is not connected, the loop
\* eventually exits unless the state is connected again before the next
\* check sees it; and the loop never exits while the room is connected.
C16_ExitsUnlessReconnected ==
    /\ (connection_state # "connected")
           ~> (entry = "done" \/ connection_state = "connected")
    /\ [][LoopExits => connection_state # "connected"]_vars

C16_Witness == entry = "done" /\ connection_state = "disconnected"

====
